---- MODULE Spec2Model ----
(***************************************************************************)
(* A model of glasswall.libraries.archive_manager.ArchiveManager: the      *)
(* single-file operations analyse_archive / protect_archive, run step by   *)
(* step against a test double of the native library (a call log), a small  *)
(* file system and the process working directory, and the directory        *)
(* operations analyse_directory / protect_directory that loop over them.   *)
(***************************************************************************)
EXTENDS Integers, Sequences, FiniteSets, TLC

\* Number of analyse_archive / protect_archive calls made in one behaviour.
MaxRuns == 2

\* ------------------------------------------------------------------------
\* Values
\* ------------------------------------------------------------------------

\* Python's "attribute / local not set" against "set to v".
Unset == [some |-> FALSE, v |-> <<>>]
Some(x) == [some |-> TRUE, v |-> x]

\* The caller's threads. Spec runs MainThread alone (single-flight use).
Threads == {"t1", "t2"}
MainThread == "t1"

\* os.path on paths held as tuples of components; "/" heads an absolute path.
WorkDir == <<"/", "work">>
LibDir == <<"/", "lib">>
library_path == <<"/", "lib", "libglasswall_archive_manager.so">>

\* The bytes of the archive the caller submits, in every input shape.
ArchiveBytes == <<80, 75>>

\* str.encode() / bytes.decode(): text and its UTF-8 bytes are different values.
encode(s) == [utf8 |-> s]
decode(b) == b.utf8

\* XML texts the caller may supply, and lxml's reading of them.
RawXml == "<config><archiveConfig>process</archiveConfig></config>"
CanonXml == "<?xml version='1.0' encoding='utf-8'?>\n<config>\n    <archiveConfig>process</archiveConfig>\n</config>\n"
DefaultXml == "<config><archiveConfig><defaultCompression>zip</defaultCompression></archiveConfig></config>"
DefaultCanonXml == "<?xml version='1.0' encoding='utf-8'?>\n<config>\n    <archiveConfig>\n        <defaultCompression>zip</defaultCompression>\n    </archiveConfig>\n</config>\n"
BadXml == "<config><archiveConfig>"

\* etree.parse / etree.fromstring: the tree of a well-formed text, else XMLSyntaxError.
etree_parse(text) ==
    CASE text \in {RawXml, CanonXml} -> "config_tree"
      [] text \in {DefaultXml, DefaultCanonXml} -> "default_tree"
      [] OTHER -> "XMLSyntaxError"

\* etree.indent + etree.tostring(xml_declaration, pretty_print).decode()
etree_tostring(tree) ==
    IF tree = "config_tree" THEN CanonXml ELSE DefaultCanonXml

\* glasswall.content_management.policies.ArchiveManager(default="sanitise", ...).text
default_policy_text == DefaultXml

\* successes.success_codes and errors.error_codes: two disjoint tables.
success_codes == {1}
error_codes == (0 :> "KnownEngineError")
UnknownErrorCode == "UnknownErrorCode"

\* What the engine may answer: a status, and two output buffers.
EngineStatuses == {1, 0, -9}
OutLens == {0, 2}
\* Engine-owned memory behind an output pointer: the reported bytes and the
\* byte that follows them in the engine's heap.
FileMemory == <<11, 12, 13>>
ReportMemory == <<21, 22, 23>>
EngineBuffer(mem, n) == [data |-> mem, length |-> n, valid |-> TRUE]
NullBuffer == [data |-> <<>>, length |-> 0, valid |-> TRUE]
\* What a read of freed engine memory may yield.
Garbage == {<<>>, <<0, 0>>}

\* ------------------------------------------------------------------------
\* Arguments
\* ------------------------------------------------------------------------
InputArgs ==
    { [shape |-> "str", path |-> <<"in.zip">>, data |-> <<>>],
      [shape |-> "str", path |-> <<"missing.zip">>, data |-> <<>>],
      [shape |-> "bytes", path |-> <<>>, data |-> ArchiveBytes],
      [shape |-> "bytearray", path |-> <<>>, data |-> ArchiveBytes],
      [shape |-> "BytesIO", path |-> <<>>, data |-> <<>>],
      [shape |-> "int", path |-> <<>>, data |-> <<>>] }

OutputFileArgs ==
    { [shape |-> "NoneType", path |-> <<>>],
      [shape |-> "str", path |-> <<"out", "f.zip">>],
      [shape |-> "int", path |-> <<>>] }

OutputReportArgs ==
    { [shape |-> "NoneType", path |-> <<>>],
      [shape |-> "str", path |-> <<"rep", "f.zip.xml">>],
      [shape |-> "int", path |-> <<>>] }

PolicyArgs ==
    { [shape |-> "NoneType", path |-> <<>>, text |-> ""],
      [shape |-> "str", path |-> <<"policy.xml">>, text |-> ""],
      [shape |-> "str", path |-> <<>>, text |-> RawXml],
      [shape |-> "str", path |-> <<>>, text |-> BadXml],
      [shape |-> "bytes", path |-> <<>>, text |-> RawXml],
      [shape |-> "BytesIO", path |-> <<>>, text |-> RawXml],
      [shape |-> "Policy", path |-> <<>>, text |-> RawXml],
      [shape |-> "int", path |-> <<>>, text |-> ""] }

Operations == {"analyse_archive", "protect_archive"}

NoArg == [shape |-> "NoneType", path |-> <<>>]
\* An empty dict.
EmptyDict == [k \in {} |-> {}]
NoExc == [kind |-> "none", code |-> 0]
Exc(k, c) == [kind |-> k, code |-> c]

\* ------------------------------------------------------------------------
\* State
\* ------------------------------------------------------------------------
VARIABLES
    run,          \* per thread: the frame of its analyse_archive/protect_archive call
    fs,           \* the files that exist: absolute path -> content
    dirs,         \* the directories that exist
    cwd,          \* os.getcwd(), process-wide
    stream_pos,   \* position of the caller's io.BytesIO over ArchiveBytes
    argtypes,     \* entry points of self.library whose argtypes are declared
    runs,         \* calls made so far
    native_calls, \* process entry point invocations seen by the library
    release_calls, \* GwArchiveDone invocations seen by the library
    batch         \* the frame of an analyse_directory/protect_directory call

vars == <<run, fs, dirs, cwd, stream_pos, argtypes, runs, native_calls, release_calls, batch>>

IdleRun ==
    [ pc |-> "idle", op |-> "none",
      input_file |-> [shape |-> "NoneType", path |-> <<>>, data |-> <<>>],
      output_file |-> NoArg, output_report |-> NoArg,
      content_management_policy |-> [shape |-> "NoneType", path |-> <<>>, text |-> ""],
      raise_unsupported |-> FALSE,
      overlapped |-> FALSE,
      held |-> Unset, fs_before |-> <<>>, cwd_before |-> <<>>,
      dirs_before |-> {}, stream_pos_before |-> 0, argtypes_before |-> {},
      input_file_bytes |-> Unset, xml |-> "",
      old_cwd |-> <<>>, new_cwd |-> <<>>,
      native_call |-> [called |-> FALSE, entry |-> "none", bytes |-> <<>>, length |-> 0,
                       policy |-> encode(""), returned |-> 0, answered |-> FALSE],
      ct_output_buffer |-> NullBuffer, ct_output_report_buffer |-> NullBuffer,
      status |-> Unset, output_file_bytes |-> Unset, output_report_bytes |-> Unset,
      exc |-> NoExc, log |-> <<>> ]

\* The frame of a directory operation before it is called.
IdleBatch ==
    [ pc |-> "idle", op |-> "none", sep |-> "/",
      input_directory |-> <<>>, output_directory |-> NoArg,
      output_report_directory |-> NoArg,
      content_management_policy |-> [shape |-> "NoneType", path |-> <<>>, text |-> ""],
      raise_unsupported |-> FALSE,
      fs_before |-> <<>>, dirs_before |-> {}, cwd_before |-> <<>>,
      files |-> <<>>, i |-> 1, protected_archives_dict |-> EmptyDict,
      history |-> <<>>, returned |-> [kind |-> "none", v |-> EmptyDict], exc |-> NoExc ]

Init ==
    /\ run = [t \in Threads |-> IdleRun]
    /\ fs = (WorkDir \o <<"in.zip">> :> ArchiveBytes)
            @@ (WorkDir \o <<"policy.xml">> :> encode(RawXml))
            @@ (WorkDir \o <<"in", "a", "doc1.zip">> :> ArchiveBytes)
            @@ (WorkDir \o <<"in", "b", "doc2.zip">> :> ArchiveBytes)
            @@ (WorkDir \o <<"in2", "x">> :> ArchiveBytes)
            @@ (WorkDir \o <<"in2", "x.xml">> :> ArchiveBytes)
            @@ (library_path :> <<127, 69>>)
    /\ dirs = {<<"/">>, WorkDir, LibDir, WorkDir \o <<"in">>,
               WorkDir \o <<"in", "a">>, WorkDir \o <<"in", "b">>,
               WorkDir \o <<"in2">>}
    /\ batch = IdleBatch
    /\ cwd = WorkDir
    /\ stream_pos = 0
    /\ argtypes = {}
    /\ runs = 0
    /\ native_calls = 0
    /\ release_calls = 0

\* ------------------------------------------------------------------------
\* os.path and the file system
\* ------------------------------------------------------------------------
IsAbs(p) == Len(p) > 0 /\ p[1] = "/"
abspath(p) == IF IsAbs(p) THEN p ELSE cwd \o p
dirname(p) == SubSeq(p, 1, Len(p) - 1)
isfile(p) == abspath(p) \in DOMAIN fs
isdir(p) == abspath(p) \in dirs
\* Mutant: no directory is created.
makedirs_skipped(d) == {}

\* os.makedirs(d, exist_ok=True): d and every missing ancestor.
makedirs(d) == { SubSeq(d, 1, n) : n \in 1..Len(d) }

\* ------------------------------------------------------------------------
\* glasswall.utils
\* ------------------------------------------------------------------------
\* Mutant: a stream gives its whole content (getvalue()), wherever it stands.
as_bytes_getvalue(file_) ==
    IF file_.shape \in {"bytes", "bytearray"}
    THEN file_.data
    ELSE ArchiveBytes

\* as_bytes: bytes as they are, a bytearray copied, a stream read from its
\* position to its end.
as_bytes(file_) ==
    IF file_.shape \in {"bytes", "bytearray"}
    THEN file_.data
    ELSE SubSeq(ArchiveBytes, stream_pos + 1, Len(ArchiveBytes))

\* The text validate_xml hands to the parser, by the branch it takes.
xml_source(xml) ==
    IF xml.shape = "str" /\ xml.path # <<>> /\ isfile(xml.path)
    THEN decode(fs[abspath(xml.path)])
    ELSE IF xml.shape = "str" /\ xml.path # <<>>
    THEN "policy.xml"
    ELSE xml.text

\* Mutant: a str is parsed as it is, not encoded first; lxml refuses a str
\* that carries an encoding declaration.
validate_xml_str_unencoded(xml) ==
    IF xml.shape \notin {"str", "bytes", "bytearray", "BytesIO", "Policy"}
    THEN [exc |-> "TypeError", xml_string |-> ""]
    ELSE IF xml.shape = "str" /\ xml.path = <<>> /\ xml.text \in {CanonXml, DefaultCanonXml}
    THEN [exc |-> "ValueError", xml_string |-> ""]
    ELSE IF etree_parse(xml_source(xml)) = "XMLSyntaxError"
    THEN [exc |-> "ValueError", xml_string |-> ""]
    ELSE [exc |-> "none", xml_string |-> etree_tostring(etree_parse(xml_source(xml)))]

\* Mutant: the text is checked for well-formedness and handed back as it came.
validate_xml_unnormalised(xml) ==
    IF xml.shape \notin {"str", "bytes", "bytearray", "BytesIO", "Policy"}
    THEN [exc |-> "TypeError", xml_string |-> ""]
    ELSE IF etree_parse(xml_source(xml)) = "XMLSyntaxError"
    THEN [exc |-> "ValueError", xml_string |-> ""]
    ELSE [exc |-> "none", xml_string |-> xml_source(xml)]

validate_xml(xml) ==
    IF xml.shape \notin {"str", "bytes", "bytearray", "BytesIO", "Policy"}
    THEN [exc |-> "TypeError", xml_string |-> ""]
    ELSE IF etree_parse(xml_source(xml)) = "XMLSyntaxError"
    THEN [exc |-> "ValueError", xml_string |-> ""]
    ELSE [exc |-> "none", xml_string |-> etree_tostring(etree_parse(xml_source(xml)))]

\* Mutant: everything behind the pointer is copied, whatever the length says.
buffer_to_bytes_whole(buffer) ==
    IF buffer.valid THEN {buffer.data} ELSE Garbage

\* buffer_to_bytes: buffer_length bytes copied from the pointer. Freed engine
\* memory yields whatever is there.
buffer_to_bytes(buffer) ==
    IF buffer.valid
    THEN {SubSeq(buffer.data, 1, buffer.length)}
    ELSE Garbage

\* ------------------------------------------------------------------------
\* analyse_archive / protect_archive, lines 71-126 and 209-264
\* ------------------------------------------------------------------------
\* The entry point whose argtypes the operation declares, and the one it calls.
DeclaredEntry(op) == "GwFileAnalysisArchive"
CalledEntry(op) ==
    IF op = "analyse_archive" THEN "GwFileAnalysisArchive" ELSE "GwFileProtectAndReportArchive"

\* Mutant: the check of content_management_policy (lines 78-79) is left out.
ArgTypesOk_policy_unchecked(a) ==
    /\ a.input_file.shape \in {"str", "bytes", "bytearray", "BytesIO"}
    /\ a.output_file.shape \in {"NoneType", "str"}
    /\ a.output_report.shape \in {"NoneType", "str"}

\* Validate arg types: the first offending argument raises TypeError.
ArgTypesOk(a) ==
    /\ a.input_file.shape \in {"str", "bytes", "bytearray", "BytesIO"}
    /\ a.output_file.shape \in {"NoneType", "str"}
    /\ a.output_report.shape \in {"NoneType", "str"}
    /\ a.content_management_policy.shape \in {"NoneType", "str", "bytes", "bytearray", "BytesIO", "Policy"}

\* Convert string path arguments to absolute paths.
AbsArg(x) == IF x.shape = "str" THEN [x EXCEPT !.path = abspath(x.path)] ELSE x

\* Mutant: a string that names no file is taken for the data itself, the way
\* the policy argument is.
ReadInput_str_as_data(input_file) ==
    IF input_file.shape = "str"
    THEN IF ~isfile(input_file.path)
         THEN [exc |-> "none", bytes |-> Some(<<>>)]
         ELSE [exc |-> "none", bytes |-> Some(fs[abspath(input_file.path)])]
    ELSE IF input_file.shape \in {"bytearray", "BytesIO"}
    THEN [exc |-> "none", bytes |-> Some(as_bytes(input_file))]
    ELSE [exc |-> "none", bytes |-> Unset]

\* Convert inputs to bytes: a path must name a file and is read, a bytearray
\* or stream goes through as_bytes, and no branch binds input_file_bytes for
\* bytes.
ReadInput(input_file) ==
    IF input_file.shape = "str"
    THEN IF ~isfile(input_file.path)
         THEN [exc |-> "FileNotFoundError", bytes |-> Unset]
         ELSE [exc |-> "none", bytes |-> Some(fs[abspath(input_file.path)])]
    ELSE IF input_file.shape \in {"bytearray", "BytesIO"}
    THEN [exc |-> "none", bytes |-> Some(as_bytes(input_file))]
    ELSE [exc |-> "none", bytes |-> Unset]

\* The policy handed to validate_xml: a path that names a file is read as
\* bytes, None is replaced by the default policy object.
LoadPolicy(policy) ==
    IF policy.shape = "str" /\ policy.path # <<>> /\ isfile(policy.path)
    THEN [shape |-> "bytes", path |-> <<>>, text |-> decode(fs[abspath(policy.path)])]
    ELSE IF policy.shape = "NoneType"
    THEN [shape |-> "Policy", path |-> <<>>, text |-> default_policy_text]
    ELSE policy

\* The reads lines 88-103 make of the caller's files and streams, in order.
InputIO(a) ==
    (IF a.input_file.shape = "str" THEN <<"open:input_file">>
     ELSE IF a.input_file.shape = "BytesIO" THEN <<"stream:input_file">>
     ELSE <<>>)
    \o (IF a.content_management_policy.shape = "str"
           /\ a.content_management_policy.path # <<>>
           /\ isfile(a.content_management_policy.path)
        THEN <<"open:content_management_policy">>
        ELSE IF a.content_management_policy.shape = "BytesIO"
        THEN <<"stream:content_management_policy">>
        ELSE <<>>)

\* Mutant: with raise_unsupported False nothing is raised before the native call.
Prepare_quiet_unless_raise_unsupported(a) ==
    LET read == ReadInput(a.input_file)
        valid == validate_xml(LoadPolicy(a.content_management_policy))
        none == [exc |-> "none", consumed |-> FALSE, declared |-> FALSE,
                 input_file_bytes |-> Unset, xml |-> "", io |-> <<>>]
    IN  IF a.raise_unsupported /\ ~ArgTypesOk(a)
        THEN [none EXCEPT !.exc = "TypeError"]
        ELSE IF a.raise_unsupported /\ read.exc # "none"
        THEN [none EXCEPT !.exc = read.exc]
        ELSE IF a.raise_unsupported /\ valid.exc # "none"
        THEN [none EXCEPT !.exc = valid.exc,
                          !.consumed = (a.input_file.shape = "BytesIO"),
                          !.io = InputIO(a)]
        ELSE [exc |-> IF read.bytes.some \/ ~a.raise_unsupported
                      THEN "none" ELSE "UnboundLocalError",
              consumed |-> (a.input_file.shape = "BytesIO"),
              declared |-> TRUE,
              input_file_bytes |-> read.bytes,
              xml |-> valid.xml_string,
              io |-> InputIO(a)]

\* The body up to the native call: what it raises, and how far it got.
Prepare(a) ==
    LET read == ReadInput(a.input_file)
        valid == validate_xml(LoadPolicy(a.content_management_policy))
        none == [exc |-> "none", consumed |-> FALSE, declared |-> FALSE,
                 input_file_bytes |-> Unset, xml |-> "", io |-> <<>>]
    IN  IF ~ArgTypesOk(a)
        THEN [none EXCEPT !.exc = "TypeError"]
        ELSE IF read.exc # "none"
        THEN [none EXCEPT !.exc = read.exc]
        ELSE IF valid.exc # "none"
        THEN [none EXCEPT !.exc = valid.exc,
                          !.consumed = (a.input_file.shape = "BytesIO"),
                          !.io = InputIO(a)]
        ELSE [exc |-> IF read.bytes.some THEN "none" ELSE "UnboundLocalError",
              consumed |-> (a.input_file.shape = "BytesIO"),
              declared |-> TRUE,
              input_file_bytes |-> read.bytes,
              xml |-> valid.xml_string,
              io |-> InputIO(a)]

\* The bytes an input argument holds when the call is made.
HeldBytes(input_file) ==
    IF input_file.shape = "str"
    THEN IF isfile(input_file.path) THEN Some(fs[abspath(input_file.path)]) ELSE Unset
    ELSE IF input_file.shape \in {"bytes", "bytearray"} THEN Some(input_file.data)
    ELSE IF input_file.shape = "BytesIO"
    THEN Some(SubSeq(ArchiveBytes, stream_pos + 1, Len(ArchiveBytes)))
    ELSE Unset

Args ==
    [ input_file : InputArgs, output_file : OutputFileArgs,
      output_report : OutputReportArgs, content_management_policy : PolicyArgs,
      raise_unsupported : BOOLEAN, op : Operations ]

\* op(**a) on thread t: the body runs to the native call site.
CallWith(t, a) ==
    /\ run[t].pc = "idle"
    /\ LET p == Prepare(a) IN
         /\ run' = [run EXCEPT ![t] =
                [ IdleRun EXCEPT
                    !.pc = IF p.exc = "none" THEN "prepared" ELSE "raised",
                    !.op = a.op,
                    !.input_file = a.input_file,
                    !.output_file = IF ArgTypesOk(a) THEN AbsArg(a.output_file) ELSE a.output_file,
                    !.output_report = IF ArgTypesOk(a) THEN AbsArg(a.output_report) ELSE a.output_report,
                    !.content_management_policy = a.content_management_policy,
                    !.raise_unsupported = a.raise_unsupported,
                    !.overlapped = (\E u \in Threads \ {t} :
                                       run[u].pc \notin {"idle", "returned", "raised"}),
                    !.held = HeldBytes(a.input_file),
                    !.fs_before = fs,
                    !.cwd_before = cwd,
                    !.dirs_before = dirs,
                    !.stream_pos_before = stream_pos,
                    !.argtypes_before = argtypes,
                    !.input_file_bytes = p.input_file_bytes,
                    !.xml = p.xml,
                    !.exc = Exc(p.exc, 0),
                    !.log = p.io \o (IF p.declared THEN <<"argtypes:" \o DeclaredEntry(a.op)>>
                                      ELSE <<>>) ]]
         /\ stream_pos' = IF p.consumed THEN Len(ArchiveBytes) ELSE stream_pos
         /\ argtypes' = IF p.declared THEN argtypes \cup {DeclaredEntry(a.op)} ELSE argtypes
    /\ runs' = runs + 1
    /\ UNCHANGED <<fs, dirs, cwd, native_calls, release_calls>>

\* A caller on thread t calls a single-file operation directly.
Call(t) ==
    /\ run[t].pc = "idle"
    /\ runs < MaxRuns
    /\ batch.pc = "idle"
    /\ \E a \in Args : CallWith(t, a)
    /\ UNCHANGED batch

\* ------------------------------------------------------------------------
\* The native call under CwdHandler, lines 128-138 and 266-276
\* ------------------------------------------------------------------------
\* CwdHandler.__init__: the directory to change to, and the one to come back to.
CwdInit(t) ==
    /\ run[t].pc = "prepared"
    /\ run' = [run EXCEPT ![t].pc = "cwd_saved",
                          ![t].new_cwd = IF isdir(library_path) THEN library_path
                                         ELSE dirname(library_path),
                          ![t].old_cwd = cwd]
    /\ UNCHANGED <<fs, dirs, cwd, stream_pos, argtypes, runs, native_calls, release_calls, batch>>

\* CwdHandler.__enter__
CwdEnter(t) ==
    /\ run[t].pc = "cwd_saved"
    /\ cwd' = run[t].new_cwd
    /\ run' = [run EXCEPT ![t].pc = "in_cwd"]
    /\ UNCHANGED <<fs, dirs, stream_pos, argtypes, runs, native_calls, release_calls, batch>>

\* What the call hands to the engine (the marshalled input block, its length
\* and the encoded policy string) and the status the engine answers.
NativeRecord(r, s) ==
    [ called |-> TRUE, entry |-> CalledEntry(r.op),
      bytes |-> r.input_file_bytes.v, length |-> Len(r.input_file_bytes.v),
      policy |-> encode(r.xml), returned |-> s, answered |-> TRUE ]

\* self.library.GwFileAnalysisArchive(...) / GwFileProtectAndReportArchive(...):
\* the engine answers a status and fills the two output pointer/length slots.
NativeCall(t) ==
    /\ run[t].pc = "in_cwd"
    /\ \E s \in EngineStatuses, n \in OutLens, m \in OutLens :
         run' = [run EXCEPT ![t].pc = "called",
                            ![t].native_call = NativeRecord(run[t], s),
                            ![t].status = Some(s),
                            ![t].ct_output_buffer = EngineBuffer(FileMemory, n),
                            ![t].ct_output_report_buffer = EngineBuffer(ReportMemory, m),
                            ![t].log = Append(@, "call:" \o CalledEntry(run[t].op))]
    /\ native_calls' = native_calls + 1
    /\ UNCHANGED <<fs, dirs, cwd, stream_pos, argtypes, runs, release_calls, batch>>

\* The foreign call itself raises (ctypes turns a fault in the engine into
\* OSError): no status is assigned, the with block is left by the exception.
NativeRaise(t) ==
    /\ run[t].pc = "in_cwd"
    /\ run' = [run EXCEPT ![t].pc = "call_raised",
                          ![t].native_call = [NativeRecord(run[t], 0) EXCEPT !.answered = FALSE],
                          ![t].exc = Exc("OSError", 0),
                          ![t].log = Append(@, "call:" \o CalledEntry(run[t].op))]
    /\ native_calls' = native_calls + 1
    /\ UNCHANGED <<fs, dirs, cwd, stream_pos, argtypes, runs, release_calls, batch>>

\* Mutant: __exit__ leaves the directory where it is.
CwdExit_keeps_directory(t) ==
    /\ run[t].pc \in {"called", "call_raised"}
    /\ cwd' = cwd
    /\ run' = [run EXCEPT ![t].pc = IF run[t].pc = "called" THEN "exited" ELSE "raised"]
    /\ UNCHANGED <<fs, dirs, stream_pos, argtypes, runs, native_calls, release_calls, batch>>

\* Mutant: the directory is put back only when the block ends normally.
CwdExit_on_success_only(t) ==
    /\ run[t].pc \in {"called", "call_raised"}
    /\ cwd' = IF run[t].pc = "called" THEN run[t].old_cwd ELSE cwd
    /\ run' = [run EXCEPT ![t].pc = IF run[t].pc = "called" THEN "exited" ELSE "raised"]
    /\ UNCHANGED <<fs, dirs, stream_pos, argtypes, runs, native_calls, release_calls, batch>>

\* CwdHandler.__exit__: runs on both ways out of the with block and lets an
\* exception pass.
CwdExit(t) ==
    /\ run[t].pc \in {"called", "call_raised"}
    /\ cwd' = run[t].old_cwd
    /\ run' = [run EXCEPT ![t].pc = IF run[t].pc = "called" THEN "exited" ELSE "raised"]
    /\ UNCHANGED <<fs, dirs, stream_pos, argtypes, runs, native_calls, release_calls, batch>>

\* ------------------------------------------------------------------------
\* After the call, lines 140-167 and 278-305
\* ------------------------------------------------------------------------
\* Mutant: raise_unsupported is ignored.
StatusError_always_raises(status, raise_unsupported) ==
    IF status \notin success_codes
    THEN Exc(IF status \in DOMAIN error_codes THEN error_codes[status] ELSE UnknownErrorCode,
             status)
    ELSE NoExc

\* Mutant: the membership test is inverted.
StatusError_raises_on_success(status, raise_unsupported) ==
    IF status \in success_codes /\ raise_unsupported
    THEN Exc(UnknownErrorCode, status)
    ELSE NoExc

\* Mutant: error_codes[status] in place of error_codes.get(status, UnknownErrorCode).
StatusError_unknown_is_KeyError(status, raise_unsupported) ==
    IF status \notin success_codes /\ raise_unsupported
    THEN Exc(IF status \in DOMAIN error_codes THEN error_codes[status] ELSE "KeyError",
             status)
    ELSE NoExc

\* if status not in success_codes: if raise_unsupported:
\*     raise error_codes.get(status, UnknownErrorCode)(status)
StatusError(status, raise_unsupported) ==
    IF status \notin success_codes /\ raise_unsupported
    THEN Exc(IF status \in DOMAIN error_codes THEN error_codes[status] ELSE UnknownErrorCode,
             status)
    ELSE NoExc

\* Mutant: the output buffers are copied before the status is looked at.
Resolve_after_copy(t) ==
    /\ run[t].pc = "exited"
    /\ LET e == StatusError(run[t].status.v, run[t].raise_unsupported) IN
         \E f \in buffer_to_bytes(run[t].ct_output_buffer),
            r \in buffer_to_bytes(run[t].ct_output_report_buffer) :
             run' = [run EXCEPT ![t].pc = IF e = NoExc THEN "copied" ELSE "raised",
                                ![t].exc = e,
                                ![t].output_file_bytes = Some(f),
                                ![t].output_report_bytes = Some(r),
                                ![t].log = @ \o <<"read:file", "read:report">>]
    /\ UNCHANGED <<fs, dirs, cwd, stream_pos, argtypes, runs, native_calls, release_calls, batch>>

\* Check status (lines 140-142 and 278-280).
Resolve(t) ==
    /\ run[t].pc = "exited"
    /\ LET e == StatusError(run[t].status.v, run[t].raise_unsupported) IN
         run' = [run EXCEPT ![t].pc = IF e = NoExc THEN "resolved" ELSE "raised",
                            ![t].exc = e]
    /\ UNCHANGED <<fs, dirs, cwd, stream_pos, argtypes, runs, native_calls, release_calls, batch>>

\* Mutant: the report buffer is left uncopied.
CopyOutputs_file_only(t) ==
    /\ run[t].pc = "resolved"
    /\ \E f \in buffer_to_bytes(run[t].ct_output_buffer) :
         run' = [run EXCEPT ![t].pc = "copied",
                            ![t].output_file_bytes = Some(f),
                            ![t].log = Append(@, "read:file")]
    /\ UNCHANGED <<fs, dirs, cwd, stream_pos, argtypes, runs, native_calls, release_calls, batch>>

\* gw_return_object.output_file / output_report = utils.buffer_to_bytes(...)
CopyOutputs(t) ==
    /\ run[t].pc = "resolved"
    /\ \E f \in buffer_to_bytes(run[t].ct_output_buffer),
          r \in buffer_to_bytes(run[t].ct_output_report_buffer) :
         run' = [run EXCEPT ![t].pc = "copied",
                            ![t].output_file_bytes = Some(f),
                            ![t].output_report_bytes = Some(r),
                            ![t].log = @ \o <<"read:file", "read:report">>]
    /\ UNCHANGED <<fs, dirs, cwd, stream_pos, argtypes, runs, native_calls, release_calls, batch>>

\* Mutant: the emptiness test is dropped.
ShouldWrite_path_only(bytes, path_arg) == path_arg.shape = "str"

\* if gw_return_object.output_file: if isinstance(output_file, str): write
ShouldWrite(bytes, path_arg) == bytes # <<>> /\ path_arg.shape = "str"

\* Write output file, then write output report.
Persist(t) ==
    LET r == run[t]
        wf == ShouldWrite(r.output_file_bytes.v, r.output_file)
        wr == ShouldWrite(r.output_report_bytes.v, r.output_report)
        fs1 == IF wf THEN (r.output_file.path :> r.output_file_bytes.v) @@ fs ELSE fs
        fs2 == IF wr THEN (r.output_report.path :> r.output_report_bytes.v) @@ fs1 ELSE fs1
    IN  /\ r.pc = "copied"
        /\ fs' = fs2
        /\ dirs' = dirs \cup (IF wf THEN makedirs(dirname(r.output_file.path)) ELSE {})
                        \cup (IF wr THEN makedirs(dirname(r.output_report.path)) ELSE {})
        /\ run' = [run EXCEPT ![t].pc = "body_done",
                              ![t].log = @ \o (IF wf THEN <<"makedirs:file", "write:file">> ELSE <<>>)
                                           \o (IF wr THEN <<"makedirs:report", "write:report">> ELSE <<>>)]
        /\ UNCHANGED <<cwd, stream_pos, argtypes, runs, native_calls, release_calls, batch>>

\* ------------------------------------------------------------------------
\* Decorators.release_after, lines 23-28
\* ------------------------------------------------------------------------
\* Mutant: release is called in a finally clause, so also when the body raised.
Release_in_finally(t) ==
    /\ \/ run[t].pc = "body_done"
       \/ run[t].pc = "raised" /\ \A i \in DOMAIN run[t].log : run[t].log[i] # "GwArchiveDone"
    /\ run' = [u \in Threads |->
                 [run[u] EXCEPT !.pc = IF u = t /\ run[t].pc = "body_done" THEN "released" ELSE @,
                                !.log = IF u = t THEN Append(@, "GwArchiveDone") ELSE @,
                                !.ct_output_buffer.valid = FALSE,
                                !.ct_output_report_buffer.valid = FALSE]]
    /\ release_calls' = release_calls + 1
    /\ UNCHANGED <<fs, dirs, cwd, stream_pos, argtypes, runs, native_calls, batch>>

\* self.release(): GwArchiveDone frees every buffer the engine allocated.
Release(t) ==
    /\ run[t].pc = "body_done"
    /\ run' = [u \in Threads |->
                 [run[u] EXCEPT !.pc = IF u = t THEN "released" ELSE @,
                                !.log = IF u = t THEN Append(@, "GwArchiveDone") ELSE @,
                                !.ct_output_buffer.valid = FALSE,
                                !.ct_output_report_buffer.valid = FALSE]]
    /\ release_calls' = release_calls + 1
    /\ UNCHANGED <<fs, dirs, cwd, stream_pos, argtypes, runs, native_calls, batch>>

\* return result
Return(t) ==
    /\ run[t].pc = "released"
    /\ run' = [run EXCEPT ![t].pc = "returned"]
    /\ UNCHANGED <<fs, dirs, cwd, stream_pos, argtypes, runs, native_calls, release_calls, batch>>

\* The caller is done with the result or the exception; the frame is gone.
Forget(t) ==
    /\ run[t].pc \in {"returned", "raised"}
    /\ batch.pc = "idle"
    /\ run' = [run EXCEPT ![t] = IdleRun]
    /\ UNCHANGED <<fs, dirs, cwd, stream_pos, argtypes, runs, native_calls, release_calls, batch>>

Step(t) ==
    \/ Call(t)
    \/ CwdInit(t)
    \/ CwdEnter(t)
    \/ NativeCall(t)
    \/ NativeRaise(t)
    \/ CwdExit(t)
    \/ Resolve(t)
    \/ CopyOutputs(t)
    \/ Persist(t)
    \/ Release(t)
    \/ Return(t)
    \/ Forget(t)

\* Single-flight use: one caller thread, one operation at a time.
Next == Step(MainThread)

Spec == Init /\ [][Next]_vars

\* ------------------------------------------------------------------------
\* Two threads sharing one ArchiveManager
\* ------------------------------------------------------------------------
\* What each of the two threads calls: an existing archive, nothing persisted.
ConcurrentArgs ==
    [ input_file : {[shape |-> "str", path |-> <<"in.zip">>, data |-> <<>>]},
      output_file : {NoArg}, output_report : {NoArg},
      content_management_policy : {[shape |-> "NoneType", path |-> <<>>, text |-> ""]},
      raise_unsupported : {FALSE}, op : Operations ]

\* A thread that has made no call yet calls a single-file operation, whether
\* or not the other thread is in the middle of one.
ConcurrentCall(t) ==
    /\ run[t].pc = "idle"
    /\ batch.pc = "idle"
    /\ \E a \in ConcurrentArgs : CallWith(t, a)
    /\ UNCHANGED batch

\* The steps of the threads interleave freely; nothing serialises the calls.
NextConcurrent ==
    \E t \in Threads :
        \/ ConcurrentCall(t)
        \/ CwdInit(t)
        \/ CwdEnter(t)
        \/ NativeCall(t)
        \/ NativeRaise(t)
        \/ CwdExit(t)
        \/ Resolve(t)
        \/ CopyOutputs(t)
        \/ Persist(t)
        \/ Release(t)
        \/ Return(t)

SpecConcurrent == Init /\ [][NextConcurrent]_vars

\* ------------------------------------------------------------------------
\* analyse_directory / protect_directory, lines 169-193 and 307-337
\* ------------------------------------------------------------------------
\* A path as the host writes it: its components joined by os.sep.
RECURSIVE PathStr(_, _)
PathStr(parts, sep) ==
    IF Len(parts) = 0 THEN ""
    ELSE IF Len(parts) = 1 THEN parts[1]
    ELSE parts[1] \o sep \o PathStr(Tail(parts), sep)

\* utils.crossplatform_path: normpath, then every "\\" replaced by "/".
crossplatform_path(parts) == PathStr(parts, "/")

\* Mutant: the file's name alone, without the directories that lead to it.
relpath_basename(p, start) == <<p[Len(p)]>>

\* os.path.relpath(p, start) for p under start.
relpath(p, start) == SubSeq(p, Len(abspath(start)) + 1, Len(p))

\* path + ".xml"
AddSuffix(p, suffix) == [p EXCEPT ![Len(p)] = @ \o suffix]

\* The files os.walk finds under directory.
FilesUnder(directory) ==
    { p \in DOMAIN fs : /\ Len(p) > Len(abspath(directory))
                        /\ SubSeq(p, 1, Len(abspath(directory))) = abspath(directory) }

\* utils.list_file_paths: the files under directory, in the order os.walk
\* yields them, which the host decides.
list_file_paths(directory) ==
    IF ~isdir(directory)
    THEN [exc |-> "NotADirectoryError", files |-> {}]
    ELSE [exc |-> "none",
          files |-> { f \in [1..Cardinality(FilesUnder(directory)) -> FilesUnder(directory)] :
                        \A i, j \in DOMAIN f : i # j => f[i] # f[j] }]

\* The directory arguments a caller may pass.
InputDirectoryArgs == {<<"in">>, <<"in2">>, <<"nodir">>}
OutputDirectoryArgs == {NoArg, [shape |-> "str", path |-> <<"out">>]}
OutputReportDirectoryArgs ==
    {NoArg, [shape |-> "str", path |-> <<"rep">>], [shape |-> "str", path |-> <<"out">>]}
DirPolicyArgs == { a \in PolicyArgs : a.shape \in {"NoneType", "int"} \/ a.text = BadXml }
Separators == {"/", "\\"}
DirOperations == {"analyse_directory", "protect_directory"}

\* The caller calls a directory operation on a host whose os.sep is sep; the
\* files are listed before the first of them is processed.
DirStart ==
    /\ batch.pc = "idle"
    /\ run[MainThread].pc = "idle"
    /\ runs = 0
    /\ \E op \in DirOperations, sep \in Separators, ind \in InputDirectoryArgs,
          out \in OutputDirectoryArgs, rep \in OutputReportDirectoryArgs,
          pol \in DirPolicyArgs, ru \in BOOLEAN :
         /\ op = "analyse_directory" => rep = NoArg
         /\ LET listed == list_file_paths(ind)
                started == [ IdleBatch EXCEPT
                               !.op = op, !.sep = sep, !.input_directory = ind,
                               !.output_directory = out, !.output_report_directory = rep,
                               !.content_management_policy = pol, !.raise_unsupported = ru,
                               !.fs_before = fs, !.dirs_before = dirs, !.cwd_before = cwd ]
            IN  IF listed.exc # "none"
                THEN batch' = [started EXCEPT !.pc = "raised", !.exc = Exc(listed.exc, 0)]
                ELSE \E files \in listed.files :
                        batch' = [started EXCEPT !.pc = "loop", !.files = files]
    /\ UNCHANGED <<run, fs, dirs, cwd, stream_pos, argtypes, runs, native_calls, release_calls>>

\* Mutant: a missing output directory stands for the working directory.
DirOutputFile_defaults_to_cwd(b, relative_path) ==
    IF b.op = "analyse_directory" /\ b.output_directory.shape # "str"
    THEN [exc |-> "TypeError", arg |-> NoArg]
    ELSE [exc |-> "none",
          arg |-> [shape |-> "str",
                   path |-> IF b.output_directory.shape = "NoneType"
                            THEN abspath(relative_path)
                            ELSE abspath(b.output_directory.path) \o relative_path]]

\* output_file for the file at relative_path. analyse_directory joins
\* output_directory as it is (os.path.join(None, ...) raises TypeError);
\* protect_directory passes None on when output_directory is None.
DirOutputFile(b, relative_path) ==
    IF b.output_directory.shape = "NoneType"
    THEN IF b.op = "analyse_directory"
         THEN [exc |-> "TypeError", arg |-> NoArg]
         ELSE [exc |-> "none", arg |-> NoArg]
    ELSE [exc |-> "none",
          arg |-> [shape |-> "str",
                   path |-> abspath(b.output_directory.path) \o relative_path]]

\* output_report for the file at relative_path: analyse_directory puts it
\* beside the output file, protect_directory under output_report_directory
\* when there is one.
DirOutputReport(b, relative_path, output_file) ==
    IF b.op = "analyse_directory"
    THEN [shape |-> "str", path |-> AddSuffix(output_file.path, ".xml")]
    ELSE IF b.output_report_directory.shape = "NoneType"
    THEN NoArg
    ELSE [shape |-> "str",
          path |-> abspath(b.output_report_directory.path)
                     \o AddSuffix(relative_path, ".xml")]

\* The keyword arguments of the single-file call for the file input_file.
DirCallArgs(b, input_file) ==
    LET relative_path == relpath(input_file, b.input_directory)
        output_file == DirOutputFile(b, relative_path)
    IN  [ exc |-> output_file.exc,
          a |-> [ input_file |-> [shape |-> "str",
                                  path |-> abspath(b.input_directory \o relative_path),
                                  data |-> <<>>],
                  output_file |-> output_file.arg,
                  output_report |-> IF output_file.exc = "none"
                                    THEN DirOutputReport(b, relative_path, output_file.arg)
                                    ELSE NoArg,
                  content_management_policy |-> b.content_management_policy,
                  raise_unsupported |-> b.raise_unsupported,
                  op |-> IF b.op = "analyse_directory" THEN "analyse_archive"
                         ELSE "protect_archive" ] ]

\* One turn of the loop: the paths are built and the single-file operation
\* is called on the next file.
DirInvoke ==
    /\ batch.pc = "loop"
    /\ batch.i <= Len(batch.files)
    /\ LET c == DirCallArgs(batch, batch.files[batch.i]) IN
         IF c.exc # "none"
         THEN /\ batch' = [batch EXCEPT !.pc = "raised", !.exc = Exc(c.exc, 0)]
              /\ UNCHANGED <<run, fs, dirs, cwd, stream_pos, argtypes, runs,
                             native_calls, release_calls>>
         ELSE /\ CallWith(MainThread, c.a)
              /\ batch' = [batch EXCEPT !.pc = "in_call"]

\* What the loop saw of one single-file call.
HistoryEntry(r) ==
    [ input_file |-> r.input_file.path, output_file |-> r.output_file,
      output_report |-> r.output_report, raise_unsupported |-> r.raise_unsupported,
      content_management_policy |-> r.content_management_policy,
      called |-> r.native_call.called, answered |-> r.native_call.answered,
      status |-> r.status, exc |-> r.exc, log |-> r.log, returned |-> r.pc = "returned",
      output_file_bytes |-> r.output_file_bytes,
      output_report_bytes |-> r.output_report_bytes ]

\* glasswall.GwReturnObj as the single-file call returns it.
GwReturnObj(r) ==
    [ status |-> r.status.v, output_file |-> r.output_file_bytes.v,
      output_report |-> r.output_report_bytes.v ]

\* The key under which protect_directory files a result.
DictKey(b, input_file) == PathStr(relpath(input_file, b.input_directory), b.sep)

\* Mutant: the dict is begun anew at every file.
DirCollect_overwrites ==
    /\ batch.pc = "in_call"
    /\ run[MainThread].pc \in {"returned", "raised"}
    /\ LET r == run[MainThread]
           seen == [batch EXCEPT !.history = Append(@, HistoryEntry(r))]
       IN  IF r.pc = "raised"
           THEN batch' = [seen EXCEPT !.pc = "raised", !.exc = r.exc]
           ELSE batch' = [seen EXCEPT
                    !.pc = "loop", !.i = @ + 1,
                    !.protected_archives_dict =
                        IF batch.op = "protect_directory"
                        THEN DictKey(batch, batch.files[batch.i]) :> GwReturnObj(r)
                        ELSE @]
    /\ run' = [run EXCEPT ![MainThread] = IdleRun]
    /\ UNCHANGED <<fs, dirs, cwd, stream_pos, argtypes, runs, native_calls, release_calls>>

\* Mutant: an exception of the single-file call is caught and the loop goes on.
DirCollect_swallows ==
    /\ batch.pc = "in_call"
    /\ run[MainThread].pc \in {"returned", "raised"}
    /\ LET r == run[MainThread]
           seen == [batch EXCEPT !.history = Append(@, HistoryEntry(r))]
       IN  batch' = [seen EXCEPT
                    !.pc = "loop", !.i = @ + 1,
                    !.protected_archives_dict =
                        IF batch.op = "protect_directory" /\ r.pc = "returned"
                        THEN (DictKey(batch, batch.files[batch.i]) :> GwReturnObj(r)) @@ @
                        ELSE @]
    /\ run' = [run EXCEPT ![MainThread] = IdleRun]
    /\ UNCHANGED <<fs, dirs, cwd, stream_pos, argtypes, runs, native_calls, release_calls>>

\* The single-file call is over: what it raised leaves the loop and the
\* directory operation; what it returned is dropped by analyse_directory and
\* filed under relative_path by protect_directory.
DirCollect ==
    /\ batch.pc = "in_call"
    /\ run[MainThread].pc \in {"returned", "raised"}
    /\ LET r == run[MainThread]
           seen == [batch EXCEPT !.history = Append(@, HistoryEntry(r))]
       IN  IF r.pc = "raised"
           THEN batch' = [seen EXCEPT !.pc = "raised", !.exc = r.exc]
           ELSE batch' = [seen EXCEPT
                    !.pc = "loop", !.i = @ + 1,
                    !.protected_archives_dict =
                        IF batch.op = "protect_directory"
                        THEN (DictKey(batch, batch.files[batch.i]) :> GwReturnObj(r)) @@ @
                        ELSE @]
    /\ run' = [run EXCEPT ![MainThread] = IdleRun]
    /\ UNCHANGED <<fs, dirs, cwd, stream_pos, argtypes, runs, native_calls, release_calls>>

\* The loop is exhausted: analyse_directory falls off its end (None),
\* protect_directory returns protected_archives_dict.
DirReturn ==
    /\ batch.pc = "loop"
    /\ batch.i > Len(batch.files)
    /\ batch' = [batch EXCEPT
                   !.pc = "done",
                   !.returned = IF batch.op = "protect_directory"
                                THEN [kind |-> "dict", v |-> batch.protected_archives_dict]
                                ELSE [kind |-> "None", v |-> EmptyDict]]
    /\ UNCHANGED <<run, fs, dirs, cwd, stream_pos, argtypes, runs, native_calls, release_calls>>

\* Single-flight use with directory operations: one caller thread that calls
\* the single-file operations directly or runs one directory operation.
NextDir ==
    \/ Step(MainThread)
    \/ DirStart
    \/ DirInvoke
    \/ DirCollect
    \/ DirReturn

SpecDir == Init /\ [][NextDir]_vars

\* ------------------------------------------------------------------------
\* Properties
\* ------------------------------------------------------------------------
Positions(log, e) == { i \in DOMAIN log : log[i] = e }
Count(log, e) == Cardinality(Positions(log, e))
Finished(r) == r.pc \in {"returned", "raised"}

\* C1: a call that invoked the native process entry point has invoked
\* GwArchiveDone exactly once by the time control is back with the caller,
\* whether it returns or raises.
C1_ReleasedOnceAfterNativeCall ==
    \A t \in Threads :
        (Finished(run[t]) /\ run[t].native_call.called)
            => Count(run[t].log, "GwArchiveDone") = 1

\* C2: a call that raises before the native call is made has invoked
\* GwArchiveDone by the time the exception reaches the caller.
C2_ReleasedWhenRaisingBeforeNativeCall ==
    \A t \in Threads :
        (run[t].pc = "raised" /\ ~run[t].native_call.called)
            => Count(run[t].log, "GwArchiveDone") >= 1

\* C3: whenever GwArchiveDone has been invoked in a run, both engine-owned
\* output buffers were read into the result before it, and no read of an
\* engine-owned buffer follows it.
C3_CopiedBeforeRelease ==
    \A t \in Threads :
        LET l == run[t].log
            reads == Positions(l, "read:file") \cup Positions(l, "read:report")
        IN  \A i \in Positions(l, "GwArchiveDone") :
                /\ \E j \in Positions(l, "read:file") : j < i
                /\ \E j \in Positions(l, "read:report") : j < i
                /\ run[t].output_file_bytes.some
                /\ run[t].output_report_bytes.some
                /\ \A j \in reads : j < i

\* C3 witness: a run has released after the engine produced both outputs.
C3_Witness ==
    \E t \in Threads :
        /\ run[t].pc = "released"
        /\ run[t].ct_output_buffer.length > 0
        /\ run[t].ct_output_report_buffer.length > 0
        /\ Count(run[t].log, "GwArchiveDone") = 1

\* C4: an argument of an accepted shape that holds bytes b never fails for
\* its shape, and the native call it leads to is handed b and Len(b).
C4_SameBytesForEveryShape ==
    \A t \in Threads :
        run[t].held.some =>
            /\ run[t].exc.kind # "UnboundLocalError"
            /\ run[t].native_call.called =>
                 /\ run[t].native_call.bytes = run[t].held.v
                 /\ run[t].native_call.length = Len(run[t].held.v)

\* C5: once the native call has answered a status outside the success table
\* and raise_unsupported is False, the run raises nothing and the result's
\* status is the status the call answered.
C5_SwallowedFailureReturns ==
    \A t \in Threads :
        ( /\ run[t].native_call.called
          /\ run[t].native_call.answered
          /\ run[t].native_call.returned \notin success_codes
          /\ ~run[t].raise_unsupported )
        => /\ run[t].pc # "raised"
           /\ run[t].exc = NoExc
           /\ run[t].status = Some(run[t].native_call.returned)

\* C5 witness: a call has returned a failure-table status with raise_unsupported False.
C5_Witness ==
    \E t \in Threads :
        /\ run[t].pc = "returned"
        /\ ~run[t].raise_unsupported
        /\ run[t].native_call.returned \in DOMAIN error_codes
        /\ run[t].status.v \in DOMAIN error_codes

\* C6: once the native call has answered a status of the success table, the
\* run raises nothing, whatever raise_unsupported is, and the result carries
\* that status.
C6_SuccessNeverRaises ==
    \A t \in Threads :
        ( /\ run[t].native_call.called
          /\ run[t].native_call.answered
          /\ run[t].native_call.returned \in success_codes )
        => /\ run[t].pc # "raised"
           /\ run[t].exc = NoExc
           /\ run[t].status = Some(run[t].native_call.returned)

\* C6 witness: a call with raise_unsupported True has returned a success status.
C6_Witness ==
    \E t \in Threads :
        /\ run[t].pc = "returned"
        /\ run[t].raise_unsupported
        /\ run[t].status.v \in success_codes

PathAtCall(r, p) == IF IsAbs(p) THEN p ELSE r.cwd_before \o p

\* C8: a call whose input_file is a string naming no existing file raises,
\* makes no native process call, and (its arguments being of accepted types)
\* what it raises is FileNotFoundError.
C8_MissingInputNoNativeCall ==
    \A t \in Threads :
        LET r == run[t] IN
        ( /\ r.pc # "idle"
          /\ r.input_file.shape = "str"
          /\ PathAtCall(r, r.input_file.path) \notin DOMAIN r.fs_before )
        => /\ r.pc = "raised"
           /\ ~r.native_call.called
           /\ \A e \in Operations : Count(r.log, "call:" \o CalledEntry(e)) = 0
           /\ ArgTypesOk(r) => r.exc.kind = "FileNotFoundError"

\* C8 witness: a call has raised FileNotFoundError and the library has seen no call.
C8_Witness ==
    \E t \in Threads :
        /\ run[t].pc = "raised"
        /\ run[t].exc.kind = "FileNotFoundError"
        /\ run[t].input_file.path = <<"missing.zip">>
        /\ native_calls = 0

\* The file at path p is the same in file systems f and g.
SameAt(p, f, g) ==
    /\ p \in DOMAIN f <=> p \in DOMAIN g
    /\ p \in DOMAIN f => f[p] = g[p]

C10_ResultCarriesBothOutputs ==
    \A t \in Threads :
        LET r == run[t] IN
        r.pc = "returned" =>
            /\ r.output_file_bytes
                 = Some(SubSeq(r.ct_output_buffer.data, 1, r.ct_output_buffer.length))
            /\ Len(r.output_file_bytes.v) = r.ct_output_buffer.length
            /\ r.output_report_bytes
                 = Some(SubSeq(r.ct_output_report_buffer.data, 1, r.ct_output_report_buffer.length))
            /\ Len(r.output_report_bytes.v) = r.ct_output_report_buffer.length

\* C10 witness: a call given no paths has returned a swallowed failure with
\* both outputs non-empty.
C10_Witness ==
    \E t \in Threads :
        /\ run[t].pc = "returned"
        /\ run[t].output_file.shape = "NoneType"
        /\ run[t].output_report.shape = "NoneType"
        /\ run[t].status.v \notin success_codes
        /\ Len(run[t].output_file_bytes.v) > 0
        /\ Len(run[t].output_report_bytes.v) > 0

\* Whether a run wrote an artifact correctly: the parent directory made
\* first, then one write, after which the file holds the artifact.
WrittenAs(r, what, path, bytes) ==
    /\ Count(r.log, "write:" \o what) = 1
    /\ Count(r.log, "makedirs:" \o what) = 1
    /\ \A i \in Positions(r.log, "makedirs:" \o what) :
         \A j \in Positions(r.log, "write:" \o what) : i < j
    /\ dirname(path) \in dirs
    /\ path \in DOMAIN fs
    /\ fs[path] = bytes

C12_CwdRestored ==
    \A t \in {MainThread} :
        LET r == run[t] IN
        /\ r.pc \in {"in_cwd", "called", "call_raised"} => cwd = dirname(library_path)
        /\ r.pc \notin {"idle", "in_cwd", "called", "call_raised"} => cwd = r.cwd_before
        /\ Finished(r) => cwd = r.cwd_before

\* C12 witness: the native call raised and the exception has reached the
\* caller, the working directory being the caller's and not the library's.
C12_Witness ==
    /\ run[MainThread].pc = "raised"
    /\ run[MainThread].exc.kind = "OSError"
    /\ run[MainThread].native_call.called
    /\ cwd = run[MainThread].cwd_before
    /\ cwd # dirname(library_path)

\* An argument of a type no accepted set holds.
WrongType(r) ==
    \/ r.input_file.shape \notin {"str", "bytes", "bytearray", "BytesIO"}
    \/ r.output_file.shape \notin {"NoneType", "str"}
    \/ r.output_report.shape \notin {"NoneType", "str"}
    \/ r.content_management_policy.shape
         \notin {"NoneType", "str", "bytes", "bytearray", "BytesIO", "Policy"}

\* C13: a call with an argument of a wrong type has raised TypeError having
\* read no file or stream, written no file or directory, left the working
\* directory alone and made no native call.
C13_TypeErrorBeforeIO ==
    \A t \in Threads :
        LET r == run[t] IN
        (r.pc # "idle" /\ WrongType(r)) =>
            /\ r.pc = "raised"
            /\ r.exc.kind = "TypeError"
            /\ r.log = <<>>
            /\ fs = r.fs_before
            /\ dirs = r.dirs_before
            /\ cwd = r.cwd_before
            /\ stream_pos = r.stream_pos_before
            /\ argtypes = r.argtypes_before
            /\ ~r.native_call.called

\* C13 witness: a call given a readable stream and a policy of a wrong type
\* has raised TypeError with the stream unread.
C13_Witness ==
    \E t \in Threads :
        /\ run[t].pc = "raised"
        /\ run[t].exc.kind = "TypeError"
        /\ run[t].input_file.shape = "BytesIO"
        /\ run[t].content_management_policy.shape = "int"
        /\ stream_pos = 0

\* The normalised text of each policy the caller may supply.
NormalisedPolicy(policy) ==
    IF policy.shape = "NoneType" THEN DefaultCanonXml ELSE CanonXml

\* C14: the policy handed to a native call is the normalised, well-formed
\* text of the policy supplied, whatever its form; a run given a malformed
\* policy makes no native call and, its arguments being of accepted types and
\* its input readable, raises ValueError.
C14_PolicyValidatedBeforeNativeCall ==
    \A t \in Threads :
        LET r == run[t]
            text == decode(r.native_call.policy)
        IN  /\ r.native_call.called =>
                /\ r.native_call.policy = encode(NormalisedPolicy(r.content_management_policy))
                /\ etree_parse(text) # "XMLSyntaxError"
                /\ etree_tostring(etree_parse(text)) = text
            /\ (r.pc # "idle" /\ r.content_management_policy.text = BadXml) =>
                /\ r.pc = "raised"
                /\ ~r.native_call.called
                /\ (~WrongType(r) /\ r.input_file.path # <<"missing.zip">>)
                     => r.exc.kind = "ValueError"

\* C14 witness: a native call was made with a policy supplied as a stream of
\* text that is not in normal form.
C14_Witness ==
    \E t \in Threads :
        /\ run[t].native_call.called
        /\ run[t].content_management_policy.shape = "BytesIO"
        /\ run[t].content_management_policy.text # CanonXml
        /\ run[t].native_call.policy = encode(CanonXml)

\* The errors of a caller's contract violation.
ContractErrors == {"TypeError", "FileNotFoundError", "ValueError"}

\* C15: whatever raise_unsupported is, a single-file call with an argument
\* of a wrong type raises TypeError, one whose input path names no file
\* raises FileNotFoundError and one whose policy is malformed raises
\* ValueError; in a directory operation such an error of a single-file call
\* is the last thing the loop sees and is what the directory operation
\* raises, so that no later file is processed.
C15_ContractErrorsPropagate ==
    /\ \A t \in Threads :
        LET r == run[t] IN
        r.pc # "idle" =>
            /\ WrongType(r) => (r.pc = "raised" /\ r.exc.kind = "TypeError")
            /\ ( /\ ~WrongType(r)
                 /\ r.input_file.shape = "str"
                 /\ PathAtCall(r, r.input_file.path) \notin DOMAIN r.fs_before )
               => (r.pc = "raised" /\ r.exc.kind = "FileNotFoundError")
            /\ ( /\ ~WrongType(r)
                 /\ r.input_file.shape = "str" => PathAtCall(r, r.input_file.path) \in DOMAIN r.fs_before
                 /\ r.content_management_policy.text = BadXml )
               => (r.pc = "raised" /\ r.exc.kind = "ValueError")
    /\ \A k \in DOMAIN batch.history :
        batch.history[k].exc.kind \in ContractErrors =>
            /\ k = Len(batch.history)
            /\ batch.pc = "raised"
            /\ batch.exc = batch.history[k].exc
    /\ ( /\ batch.pc # "idle"
         /\ \/ batch.content_management_policy.shape = "int"
            \/ batch.content_management_policy.text = BadXml )
       => /\ batch.pc # "done"
          /\ native_calls = 0
          /\ Len(batch.history) <= 1
          /\ Len(batch.history) = 1 =>
               /\ batch.pc = "raised"
               /\ batch.exc.kind = IF batch.content_management_policy.shape = "int"
                                   THEN "TypeError" ELSE "ValueError"

\* C15 witness: a directory operation over two files with raise_unsupported
\* False has raised the ValueError of its first single-file call.
C15_Witness ==
    /\ batch.pc = "raised"
    /\ ~batch.raise_unsupported
    /\ batch.exc.kind = "ValueError"
    /\ Len(batch.files) = 2
    /\ Len(batch.history) = 1
    /\ ~batch.history[1].raise_unsupported

\* The path of file f relative to the input directory of directory operation
\* b, as components.
RelativeTo(b, f) == SubSeq(f, Len(b.cwd_before \o b.input_directory) + 1, Len(f))

\* The result mapping of b has exactly one entry per listed file, keyed by
\* the file's relative path as the host writes it and holding what that
\* file's single-file call returned.
MappingPerFile(b) ==
    /\ b.returned.kind = "dict"
    /\ DOMAIN b.returned.v = { PathStr(RelativeTo(b, b.files[k]), b.sep) : k \in DOMAIN b.files }
    /\ Cardinality(DOMAIN b.returned.v) = Len(b.files)
    /\ Len(b.history) = Len(b.files)
    /\ \A k \in DOMAIN b.files :
         LET h == b.history[k]
             e == b.returned.v[PathStr(RelativeTo(b, b.files[k]), b.sep)]
         IN  /\ h.input_file = b.files[k]
             /\ h.returned
             /\ e.status = h.status.v
             /\ e.output_file = h.output_file_bytes.v
             /\ e.output_report = h.output_report_bytes.v

\* C16 as stated: a completed directory operation, analyse or protect, has
\* returned a mapping with one entry per file, keyed by relative path.
C16_BothReturnMapping ==
    batch.pc = "done" => MappingPerFile(batch)

\* C16 amended: a completed protect_directory has returned a mapping with
\* exactly one entry per file found under input_directory, keyed by the
\* file's path relative to input_directory and holding that file's result; a
\* completed analyse_directory has returned None.
C16_ProtectReturnsMapping ==
    batch.pc = "done" =>
        IF batch.op = "protect_directory"
        THEN MappingPerFile(batch)
        ELSE batch.returned.kind = "None" /\ Len(batch.history) = Len(batch.files)

\* C16 witness: protect_directory has returned two entries whose statuses differ.
C16_Witness ==
    /\ batch.pc = "done"
    /\ batch.op = "protect_directory"
    /\ Cardinality(DOMAIN batch.returned.v) = 2
    /\ \E j, k \in DOMAIN batch.returned.v :
         batch.returned.v[j].status # batch.returned.v[k].status

\* The paths a single-file call wrote.
WrittenPaths(h) ==
    (IF Count(h.log, "write:file") > 0 THEN {h.output_file.path} ELSE {})
      \cup (IF Count(h.log, "write:report") > 0 THEN {h.output_report.path} ELSE {})

\* The single-file calls a directory operation has made: those it has seen
\* the end of and the one in progress.
CallsOf(b) ==
    IF b.pc = "in_call" THEN Append(b.history, HistoryEntry(run[MainThread])) ELSE b.history

\* C17: every single-file call of a directory operation is made on a listed
\* file, with the output path output_directory joined with the file's
\* relative path (when output_directory is given) and, in protect_directory
\* with a report directory, the report path that directory joined with the
\* relative path plus ".xml"; analyse_directory puts the report beside the
\* output file. An output file that was written is at the mirrored path,
\* and holds the output unless a later call wrote to that path.
C17_OutputTreeMirrorsInput ==
    \A k \in DOMAIN CallsOf(batch) :
        LET h == CallsOf(batch)[k]
            r == RelativeTo(batch, batch.files[k])
            outRoot == batch.cwd_before \o batch.output_directory.path
            repRoot == batch.cwd_before \o batch.output_report_directory.path
        IN  /\ h.input_file = batch.files[k]
            /\ batch.output_directory.shape = "str" =>
                 /\ h.output_file = [shape |-> "str", path |-> outRoot \o r]
                 /\ Count(h.log, "write:file") = 1 =>
                      /\ (outRoot \o r) \in DOMAIN fs
                      /\ (\A d \in DOMAIN CallsOf(batch) :
                            d > k => (outRoot \o r) \notin WrittenPaths(CallsOf(batch)[d]))
                           => fs[outRoot \o r] = h.output_file_bytes.v
            /\ (batch.op = "protect_directory" /\ batch.output_report_directory.shape = "str") =>
                 h.output_report
                   = [shape |-> "str",
                      path |-> repRoot \o SubSeq(r, 1, Len(r) - 1) \o <<r[Len(r)] \o ".xml">>]
            /\ (batch.op = "analyse_directory") =>
                 h.output_report
                   = [shape |-> "str",
                      path |-> outRoot \o SubSeq(r, 1, Len(r) - 1) \o <<r[Len(r)] \o ".xml">>]

\* C17 witness: protect_directory is done and the two outputs and a report
\* are in trees that mirror the input tree.
C17_Witness ==
    /\ batch.pc = "done"
    /\ batch.op = "protect_directory"
    /\ (WorkDir \o <<"out", "a", "doc1.zip">>) \in DOMAIN fs
    /\ (WorkDir \o <<"out", "b", "doc2.zip">>) \in DOMAIN fs
    /\ (WorkDir \o <<"rep", "a", "doc1.zip.xml">>) \in DOMAIN fs

\* C18 as stated: the keys of the mapping protect_directory returns are the
\* relative paths written with "/", whatever the host's separator.
C18_KeysForwardSlash ==
    (batch.pc = "done" /\ batch.op = "protect_directory") =>
        DOMAIN batch.returned.v
          = { crossplatform_path(RelativeTo(batch, batch.files[k])) : k \in DOMAIN batch.files }

\* The error kinds a native status can raise.
StatusErrors == {error_codes[c] : c \in DOMAIN error_codes} \cup {UnknownErrorCode}

\* With raise_unsupported True the first failure status ends the directory
\* operation with that error and nothing is submitted after it; with
\* raise_unsupported False no status ends it.
AbortsOnFirstFailure(b) ==
    /\ \A k \in DOMAIN b.history :
         LET h == b.history[k] IN
         (b.raise_unsupported /\ h.answered /\ h.status.v \notin success_codes) =>
             /\ k = Len(b.history)
             /\ b.pc = "raised"
             /\ b.exc.kind \in StatusErrors
             /\ b.exc.code = h.status.v
             /\ native_calls = k
             /\ k < Len(b.files) => \A j \in (k + 1)..Len(b.files) :
                  \A c \in DOMAIN CallsOf(b) : CallsOf(b)[c].input_file # b.files[j]
    /\ (~b.raise_unsupported /\ b.pc = "raised") => b.exc.kind \notin StatusErrors

\* Every listed file was submitted to the native call exactly once.
EachSubmittedOnce(b) ==
    /\ native_calls = Len(b.files)
    /\ \A k \in DOMAIN b.files :
         Cardinality({ c \in DOMAIN b.history :
                         /\ b.history[c].input_file = b.files[k]
                         /\ b.history[c].called }) = 1
    /\ \A c \in DOMAIN b.history :
         Count(b.history[c].log, "call:" \o CalledEntry(IF b.op = "analyse_directory"
                                                        THEN "analyse_archive"
                                                        ELSE "protect_archive")) = 1

\* Each file's status is in the returned mapping under the file's path.
StatusCaptured(b) ==
    /\ b.returned.kind = "dict"
    /\ \A k \in DOMAIN b.files :
         /\ PathStr(RelativeTo(b, b.files[k]), b.sep) \in DOMAIN b.returned.v
         /\ b.returned.v[PathStr(RelativeTo(b, b.files[k]), b.sep)].status = b.history[k].status.v

\* C19 as stated: abort on the first failure with raise_unsupported True;
\* with False every file is submitted once and every status is captured
\* under its path, in either directory operation.
C19_AbortOrCaptureAll ==
    /\ AbortsOnFirstFailure(batch)
    /\ (batch.pc = "done" /\ ~batch.raise_unsupported) =>
         (EachSubmittedOnce(batch) /\ StatusCaptured(batch))

\* C19 amended: abort on the first failure with raise_unsupported True; with
\* False a completed directory operation has submitted every file exactly
\* once whatever the statuses, and protect_directory has captured each
\* status under the file's path, while analyse_directory keeps none.
C19_AbortOrSubmitAll ==
    /\ AbortsOnFirstFailure(batch)
    /\ (batch.pc = "done" /\ ~batch.raise_unsupported) =>
         /\ EachSubmittedOnce(batch)
         /\ IF batch.op = "protect_directory"
            THEN StatusCaptured(batch)
            ELSE batch.returned.kind = "None"

\* C19 witness: protect_directory with raise_unsupported False is done, its
\* first file having had a failure status and its second a success.
C19_Witness ==
    /\ batch.pc = "done"
    /\ ~batch.raise_unsupported
    /\ batch.op = "protect_directory"
    /\ Len(batch.history) = 2
    /\ batch.history[1].status.v \notin success_codes
    /\ batch.history[2].status.v \in success_codes
    /\ native_calls = 2

\* The files that exist now and did not when b was called.
NewFiles(b) == DOMAIN fs \ DOMAIN b.fs_before

\* Whether path p lies under directory d.
Under(p, d) == Len(p) > Len(d) /\ SubSeq(p, 1, Len(d)) = d

\* With no output directory no output file is written, with no report
\* directory no report, and what is written lies under the root given.
NothingWrittenWithoutRoot(b) ==
    /\ b.output_directory.shape = "NoneType" =>
         /\ \A c \in DOMAIN CallsOf(b) : Count(CallsOf(b)[c].log, "write:file") = 0
         /\ \A p \in NewFiles(b) :
              /\ b.output_report_directory.shape = "str"
              /\ Under(p, b.cwd_before \o b.output_report_directory.path)
    /\ b.output_report_directory.shape = "NoneType" =>
         /\ \A c \in DOMAIN CallsOf(b) : Count(CallsOf(b)[c].log, "write:report") = 0
         /\ \A p \in NewFiles(b) :
              /\ b.output_directory.shape = "str"
              /\ Under(p, b.cwd_before \o b.output_directory.path)
    /\ ( /\ b.output_directory.shape = "NoneType"
         /\ b.output_report_directory.shape = "NoneType" )
       => (fs = b.fs_before /\ dirs = b.dirs_before)

\* A directory operation ends early only with what a single-file call raised.
EndsEarlyOnlyOnCallError(b) ==
    (b.pc = "raised" /\ b.input_directory # <<"nodir">>) =>
        /\ Len(b.history) >= 1
        /\ b.history[Len(b.history)].exc = b.exc

StrXml(text) == [shape |-> "str", path |-> <<>>, text |-> text]

Quiescent == \A t \in Threads : run[t].pc \in {"idle", "returned", "raised"}

\* C22: calls that did not overlap leave the working directory, once they
\* are all over, as it was before the first of them; so when the working
\* directory is then another one, a call was started while another was in
\* progress. (The witness is the state the claim says overlapping reaches.)
C22_CwdLostOnlyByOverlap ==
    (Quiescent /\ \A t \in Threads : ~run[t].overlapped) => cwd = WorkDir

\* C22 witness: two calls overlapped, both are over, and the working
\* directory is the library's and not the one in which both were started.
C22_Witness ==
    /\ \A t \in Threads :
         /\ run[t].pc \in {"returned", "raised"}
         /\ run[t].cwd_before = WorkDir
    /\ \E t \in Threads : run[t].overlapped
    /\ cwd = dirname(library_path)
    /\ cwd # WorkDir

\* C23: the entry point a run calls is one whose argtypes have been declared
\* by the time it is called, the declaration preceding the call in the run
\* that calls it or in an earlier one.
C23_CalledEntryDeclared ==
    \A t \in Threads :
        run[t].native_call.called =>
            /\ run[t].native_call.entry \in argtypes
            /\ run[t].native_call.entry = CalledEntry(run[t].op)

\* C24: a run whose native call answered a status outside the success table
\* with raise_unsupported True has, once the status is checked, raised
\* having copied neither output buffer and persisted nothing: the files and
\* directories are those that existed when the call was made.
C24_FailureRaisesBeforeCopyAndPersist ==
    \A t \in Threads :
        LET r == run[t] IN
        ( /\ r.native_call.answered
          /\ r.native_call.returned \notin success_codes
          /\ r.raise_unsupported ) =>
            /\ r.pc \in {"called", "exited", "raised"}
            /\ \A e \in {"read:file", "read:report", "makedirs:file", "write:file",
                         "makedirs:report", "write:report"} : Count(r.log, e) = 0
            /\ r.output_file_bytes = Unset
            /\ r.output_report_bytes = Unset
            /\ fs = r.fs_before
            /\ dirs = r.dirs_before

\* C24 witness: a run given both paths has raised on a failure status while
\* the engine had produced a non-empty file and report.
C24_Witness ==
    \E t \in Threads :
        /\ run[t].pc = "raised"
        /\ run[t].raise_unsupported
        /\ run[t].native_call.answered
        /\ run[t].native_call.returned \notin success_codes
        /\ run[t].ct_output_buffer.length > 0
        /\ run[t].ct_output_report_buffer.length > 0
        /\ run[t].output_file.shape = "str"
        /\ run[t].output_report.shape = "str"
        /\ run[t].output_file.path \notin DOMAIN fs

\* C25: in a directory operation the paths written for one input file and
\* the paths written for another have none in common.
C25_WrittenPathsDisjoint ==
    \A c, d \in DOMAIN CallsOf(batch) :
        c # d => WrittenPaths(CallsOf(batch)[c]) \cap WrittenPaths(CallsOf(batch)[d]) = {}

\* C26: a run given the caller's stream (its other arguments of accepted
\* types) leaves the stream at its end, and what it hands to the native call
\* is what lay between the stream's position when the run was called and its
\* end: all of the content from a fresh stream, nothing from one already read.
C26_StreamReadToEnd ==
    /\ stream_pos \in {0, Len(ArchiveBytes)}
    /\ \A t \in Threads :
        LET r == run[t] IN
        (r.pc # "idle" /\ r.input_file.shape = "BytesIO" /\ ~WrongType(r)) =>
            /\ stream_pos = Len(ArchiveBytes)
            /\ Count(r.log, "stream:input_file") = 1
            /\ r.native_call.called =>
                 /\ r.native_call.bytes
                      = SubSeq(ArchiveBytes, r.stream_pos_before + 1, Len(ArchiveBytes))
                 /\ r.native_call.length = Len(ArchiveBytes) - r.stream_pos_before
                 /\ r.stream_pos_before = 0 => r.native_call.bytes = ArchiveBytes
                 /\ r.stream_pos_before = Len(ArchiveBytes) => r.native_call.length = 0

\* C26 witness: the second of two runs given the same stream has handed
\* zero bytes to the native call.
C26_Witness ==
    \E t \in Threads :
        /\ runs = 2
        /\ run[t].input_file.shape = "BytesIO"
        /\ run[t].stream_pos_before = Len(ArchiveBytes)
        /\ run[t].native_call.called
        /\ run[t].native_call.length = 0
        /\ run[t].native_call.bytes = <<>>

\* The native process calls in a run's log.
NativeCallPositions(log) ==
    UNION { Positions(log, "call:" \o CalledEntry(op)) : op \in Operations }

\* C27: the library has seen no more release calls than native process
\* calls and no more native calls than runs; in each run a release follows
\* the run's native call, there is at most one native call and at most one
\* release, and a run that raised before the native call made neither.
C27_ReleaseFollowsSingleNativeCall ==
    /\ release_calls <= native_calls
    /\ native_calls <= runs
    /\ \A t \in Threads :
        LET r == run[t] IN
        /\ Cardinality(NativeCallPositions(r.log)) <= 1
        /\ Count(r.log, "GwArchiveDone") <= 1
        /\ r.native_call.called <=> Cardinality(NativeCallPositions(r.log)) = 1
        /\ \A i \in Positions(r.log, "GwArchiveDone") :
             \E j \in NativeCallPositions(r.log) : j < i
        /\ (r.pc = "raised" /\ ~r.native_call.called) =>
             /\ NativeCallPositions(r.log) = {}
             /\ Count(r.log, "GwArchiveDone") = 0

\* C27 witness: after a run that made its native call and released, a second
\* run has raised before the native call, and the library has seen one call
\* of each kind.
C27_Witness ==
    \E t \in Threads :
        /\ runs = 2
        /\ native_calls = 1
        /\ release_calls = 1
        /\ run[t].pc = "raised"
        /\ ~run[t].native_call.called
        /\ run[t].log = <<>>
====
